---- MODULE Spec2Model ----
(***************************************************************************)
(* A model of pycinante (src/pycinante/__init__.py): the PathBuilder       *)
(* class with the directory creation it performs (os.makedirs over a POSIX *)
(* file system), the JSON save/load helpers and listify.                   *)
(*                                                                         *)
(* Path strings are sequences of one-character strings, so that            *)
(* os.path.join and os.path.split are computed as posixpath computes them. *)
(* A node of the file system is named by its canonical path: the sequence  *)
(* of its components from the root.                                        *)
(***************************************************************************)
EXTENDS Integers, Sequences, FiniteSets, TLC

VARIABLES
    fs,        \* the file system: [dirs, files, ro]
    builders,  \* the PathBuilder instances created so far, in creation order
    last,      \* the last call made and how it ended
    threads,   \* the threads of the concurrent scenario, each inside os.makedirs
    heap,      \* the Python objects of the listify scenario, by identity
    lret       \* the last listify call: its argument and the object returned

vars == <<fs, builders, last, threads, heap, lret>>

(***************************************************************************)
(* Bounds of the model.                                                    *)
(***************************************************************************)
MaxBuilders == 2   \* PathBuilder instances alive at once
MaxThreads == 2    \* threads of the concurrent scenario
MaxHeap == 3       \* objects in the listify scenario

(***************************************************************************)
(* posixpath: join and split on path strings.                              *)
(***************************************************************************)
SEP == "/"

\* The element of a one-element set.  Only({F(x) : x \in {e}}) is F(e) with e
\* evaluated once, whatever the number of places F uses it in.
Only(S) == CHOOSE x \in S : TRUE

Str1(c) == <<c>>

\* os.path.join(a, b) for two strings.
Join2(a, b) ==
    IF b # <<>> /\ b[1] = SEP THEN b
    ELSE IF a = <<>> \/ a[Len(a)] = SEP THEN a \o b
    ELSE a \o <<SEP>> \o b

\* os.path.join(*names) for a non-empty tuple of strings.
RECURSIVE JoinAll(_)
JoinAll(names) ==
    IF Len(names) = 1 THEN names[1]
    ELSE Join2(JoinAll(SubSeq(names, 1, Len(names) - 1)), names[Len(names)])

\* p.rfind("/") + 1: the index of the last separator, 0 when there is none.
RFind(p) ==
    LET at == {i \in 1..Len(p) : p[i] = SEP}
    IN  IF at = {} THEN 0 ELSE CHOOSE i \in at : \A j \in at : j <= i

AllSep(p) == \A i \in 1..Len(p) : p[i] = SEP

\* p.rstrip("/")
RStripSep(p) ==
    LET at == {i \in 1..Len(p) : p[i] # SEP}
    IN  IF at = {} THEN <<>>
        ELSE SubSeq(p, 1, CHOOSE i \in at : \A j \in at : j <= i)

\* os.path.split(p): [head, tail].
Split(p) ==
    LET i == RFind(p)
        head == SubSeq(p, 1, i)
        tail == SubSeq(p, i + 1, Len(p))
    IN  [head |-> IF head # <<>> /\ ~AllSep(head) THEN RStripSep(head) ELSE head,
         tail |-> tail]

\* The components of a path string: the maximal separator-free pieces.
RECURSIVE Components(_)
Components(p) ==
    IF p = <<>> THEN <<>>
    ELSE LET i == RFind(p)
             lastc == SubSeq(p, i + 1, Len(p))
         IN  Only({ IF lastc = <<>> THEN Components(q)
                    ELSE Append(Components(q), lastc) :
                    q \in {SubSeq(p, 1, IF i = 0 THEN 0 ELSE i - 1)} })

DOT == <<".">>
DOTDOT == <<".", ".">>

(***************************************************************************)
(* The file system.  dirs: the canonical paths that are directories;       *)
(* files: canonical path -> content, for the regular files; ro: the        *)
(* directories in which the process may not create entries.                *)
(***************************************************************************)
Root == <<>>
Cwd == <<Str1("w")>>

Parent(c) == IF c = <<>> THEN <<>> ELSE SubSeq(c, 1, Len(c) - 1)

IsDirNode(f, c) == c \in f.dirs
IsFileNode(f, c) == c \in DOMAIN f.files
Present(f, c) == IsDirNode(f, c) \/ IsFileNode(f, c)

StartOf(p) == IF p # <<>> /\ p[1] = SEP THEN Root ELSE Cwd

\* The kernel's walk over components cs from node cur: every component is
\* looked up in a directory.  [err, node].
RECURSIVE WalkFrom(_, _, _)
WalkFrom(f, cur, cs) ==
    IF cs = <<>> THEN [err |-> "ok", node |-> cur]
    ELSE IF ~IsDirNode(f, cur) THEN [err |-> "ENOTDIR", node |-> cur]
    ELSE LET c == Head(cs)
             nxt == IF c = DOT THEN cur
                    ELSE IF c = DOTDOT THEN Parent(cur)
                    ELSE Append(cur, c)
         IN  IF ~Present(f, nxt) THEN [err |-> "ENOENT", node |-> nxt]
             ELSE Only({ WalkFrom(f, n, t) : n \in {nxt}, t \in {Tail(cs)} })

\* stat(p): the node a path string names.
Resolve(f, p) ==
    IF p = <<>> THEN [err |-> "ENOENT", node |-> Root]
    ELSE Only({ IF r.err = "ok" /\ p[Len(p)] = SEP /\ ~IsDirNode(f, r.node)
                THEN [err |-> "ENOTDIR", node |-> r.node]
                ELSE r :
                r \in {WalkFrom(f, StartOf(p), Components(p))} })

\* isdir with os.path.exists in its place: any entry counts.
isdir_exists(f, p) == Resolve(f, p).err = "ok"

\* os.path.exists and os.path.isdir: a failing stat is False.
exists(f, p) == Resolve(f, p).err = "ok"
isdir(f, p) == \E r \in {Resolve(f, p)} : r.err = "ok" /\ IsDirNode(f, r.node)

\* mkdir(2) once the components cs of p are known (cs is not empty).
mkdir_at(f, p, cs) ==
    Only({ LET c == cs[Len(cs)]
               target == Append(par.node, c)
           IN  IF par.err # "ok" THEN [err |-> par.err, fs |-> f]
               ELSE IF ~IsDirNode(f, par.node) THEN [err |-> "ENOTDIR", fs |-> f]
               ELSE IF c = DOT \/ c = DOTDOT THEN [err |-> "EEXIST", fs |-> f]
               ELSE IF Present(f, target) THEN [err |-> "EEXIST", fs |-> f]
               ELSE IF par.node \in f.ro THEN [err |-> "EACCES", fs |-> f]
               ELSE [err |-> "ok", fs |-> [f EXCEPT !.dirs = @ \cup {target}]] :
           par \in {WalkFrom(f, StartOf(p), SubSeq(cs, 1, Len(cs) - 1))} })

\* mkdir(2): [err, fs].
mkdir(f, p) ==
    IF p = <<>> THEN [err |-> "ENOENT", fs |-> f]
    ELSE Only({ IF cs = <<>> THEN [err |-> "EEXIST", fs |-> f]
                ELSE mkdir_at(f, p, cs) :
                cs \in {Components(p)} })

\* The OSError subclass Python raises for an errno.
ExcOf(err) ==
    CASE err = "EEXIST" -> "FileExistsError"
      [] err = "ENOENT" -> "FileNotFoundError"
      [] err = "ENOTDIR" -> "NotADirectoryError"
      [] err = "EACCES" -> "PermissionError"
      [] err = "EISDIR" -> "IsADirectoryError"
      [] OTHER -> "none"

(***************************************************************************)
(* os.makedirs(name, exist_ok), as CPython's os.py runs it, one system     *)
(* call per step.  A call is a frame [name, pc, err] on the stack:         *)
(*   "start"  head, tail = split(name); the stat of path.exists(head)      *)
(*   "rec"    inside the recursive makedirs(head)                          *)
(*   "mkdir"  the mkdir(name) call                                         *)
(*   "isdir"  mkdir raised OSError err: the stat of path.isdir(name)       *)
(* A run is [stack, done, exc]; exc is the exception that left makedirs.   *)
(***************************************************************************)
Frame(name) == [name |-> name, pc |-> "start", err |-> "ok"]

StartRun(name) == [stack |-> <<Frame(name)>>, done |-> FALSE, exc |-> "none"]

\* head, tail = path.split(name); if not tail: head, tail = path.split(head)
HeadTail(name) ==
    LET s1 == Split(name)
    IN  IF s1.tail = <<>> THEN Split(s1.head) ELSE s1

\* The innermost call ends with exc ("none": it returned): its callers resume.
\* A caller swallows FileExistsError, returns at once when its tail is
\* curdir, and goes on to its own mkdir otherwise.
RECURSIVE Unwind(_, _)
Unwind(stack, exc) ==
    IF stack = <<>> THEN [stack |-> <<>>, done |-> TRUE, exc |-> exc]
    ELSE LET n == Len(stack)
             top == stack[n]
             below == SubSeq(stack, 1, n - 1)
         IN  IF exc \in {"none", "FileExistsError"}
             THEN IF HeadTail(top.name).tail = DOT
                  THEN Only({ Unwind(b, "none") : b \in {below} })
                  ELSE [stack |-> Append(below, [top EXCEPT !.pc = "mkdir"]),
                        done |-> FALSE, exc |-> "none"]
             ELSE Only({ Unwind(b, exc) : b \in {below} })

\* One step of a run that is not done: [fs, run].
MakedirsStep(f, run, exist_ok) ==
    LET n == Len(run.stack)
        top == run.stack[n]
        below == SubSeq(run.stack, 1, n - 1)
        ht == HeadTail(top.name)
    IN  CASE top.pc = "start" ->
               IF ht.head # <<>> /\ ht.tail # <<>> /\ ~exists(f, ht.head)
               THEN [fs |-> f,
                     run |-> [run EXCEPT !.stack =
                                 Append(Append(below, [top EXCEPT !.pc = "rec"]),
                                        Frame(ht.head))]]
               ELSE [fs |-> f,
                     run |-> [run EXCEPT !.stack =
                                 Append(below, [top EXCEPT !.pc = "mkdir"])]]
          [] top.pc = "mkdir" ->
               Only({ IF r.err = "ok"
                      THEN [fs |-> r.fs, run |-> Unwind(below, "none")]
                      ELSE [fs |-> f,
                            run |-> [run EXCEPT !.stack =
                                        Append(below, [top EXCEPT !.pc = "isdir",
                                                                  !.err = r.err])]] :
                      r \in {mkdir(f, top.name)} })
          [] OTHER ->  \* "isdir"
               IF exist_ok /\ isdir(f, top.name)
               THEN [fs |-> f, run |-> Unwind(below, "none")]
               ELSE [fs |-> f, run |-> Unwind(below, ExcOf(top.err))]

\* A run taken to its end with no other process in between: [fs, exc].
RECURSIVE RunToEnd(_, _, _)
RunToEnd(f, run, exist_ok) ==
    IF run.done THEN [fs |-> f, exc |-> run.exc]
    ELSE Only({ RunToEnd(s.fs, s.run, exist_ok) :
                  s \in {MakedirsStep(f, run, exist_ok)} })

makedirs(f, name, exist_ok) == RunToEnd(f, StartRun(name), exist_ok)

(***************************************************************************)
(* PathBuilder.  An instance is [path].  An operation's outcome is         *)
(* [fs, exc, path, self, ret]: the file system it leaves, the exception    *)
(* that reached the caller ("none": it returned), the path string it       *)
(* computed, the receiver as the call leaves it, and what it returned: a   *)
(* "new" PathBuilder, the receiver it"self", or a "str".                   *)
(***************************************************************************)
\* The call without exist_ok=True.
EXIST_OK_dropped == FALSE

\* The exist_ok argument of the os.makedirs call.
EXIST_OK == TRUE

\* __init__ without the os.makedirs call.
PathBuilder_init_nomkdir(f, names) ==
    [fs |-> f, exc |-> "none",
     path |-> JoinAll(IF names = <<>> THEN <<DOT>> ELSE names)]

\* __init__ calling os.makedirs(self.path): an existing directory is an error.
PathBuilder_init_strict(f, names) ==
    LET path == JoinAll(IF names = <<>> THEN <<DOT>> ELSE names)
        r == makedirs(f, path, FALSE)
    IN  [fs |-> r.fs, exc |-> r.exc, path |-> path]

\* __init__(self, *names)
PathBuilder_init(f, names) ==
    Only({ [fs |-> r.fs, exc |-> r.exc, path |-> path] :
           path \in {JoinAll(IF names = <<>> THEN <<DOT>> ELSE names)},
           r \in {makedirs(f, JoinAll(IF names = <<>> THEN <<DOT>> ELSE names),
                           EXIST_OK)} })

\* __truediv__ extending the receiver in place and returning it.
PathBuilder_truediv_inplace(f, self, pathname) ==
    LET path == Join2(self.path, pathname)
        r == makedirs(f, path, TRUE)
    IN  [fs |-> r.fs, exc |-> r.exc, path |-> path,
         self |-> IF r.exc = "none" THEN [path |-> path] ELSE self,
         ret |-> "self"]

\* __truediv__(self, pathname): PathBuilder(os.path.join(self.path, pathname))
PathBuilder_truediv(f, self, pathname) ==
    Only({ [fs |-> r.fs, exc |-> r.exc, path |-> r.path, self |-> self,
            ret |-> "new"] :
           r \in {PathBuilder_init(f, <<Join2(self.path, pathname)>>)} })

\* __add__ creating the directory of the joined path, as __truediv__ does.
PathBuilder_add_mkdir(f, self, basename) ==
    LET path == Join2(self.path, basename)
        r == makedirs(f, path, TRUE)
    IN  [fs |-> r.fs, exc |-> r.exc, path |-> path, self |-> self, ret |-> "str"]

\* __add__(self, basename): os.path.join(self.path, basename)
PathBuilder_add(f, self, basename) ==
    [fs |-> f, exc |-> "none", path |-> Join2(self.path, basename),
     self |-> self, ret |-> "str"]

(***************************************************************************)
(* Python values and JSON text.  A value is [t, s, items]: its type, its   *)
(* scalar payload as text, and its elements (a dict's items are its keys   *)
(* and values in turn: k1, v1, k2, v2, ...).  JSON text is a sequence of   *)
(* tokens [k, v]: punctuation, literals, numbers and strings.              *)
(***************************************************************************)
PyNone == [t |-> "NoneType", s |-> "", items |-> <<>>]
PyBool(b) == [t |-> "bool", s |-> IF b THEN "true" ELSE "false", items |-> <<>>]
PyInt(digits) == [t |-> "int", s |-> digits, items |-> <<>>]
PyStr(text) == [t |-> "str", s |-> text, items |-> <<>>]
PyList(xs) == [t |-> "list", s |-> "", items |-> xs]
PyTuple(xs) == [t |-> "tuple", s |-> "", items |-> xs]
PyDict(kvs) == [t |-> "dict", s |-> "", items |-> kvs]
PySet(xs) == [t |-> "set", s |-> "", items |-> xs]
PyRange(xs) == [t |-> "range", s |-> "", items |-> xs]

Punct(c) == [k |-> "punct", v |-> c]
Lit(w) == [k |-> "lit", v |-> w]
Num(d) == [k |-> "num", v |-> d]
StrTok(x) == [k |-> "str", v |-> x]

\* json.encoder: the text of a dict key (str as is; int, bool and None are
\* turned into strings), or no key at all (TypeError).
KeyTok(key) ==
    CASE key.t = "str" -> [ok |-> TRUE, tok |-> StrTok(key.s)]
      [] key.t = "int" -> [ok |-> TRUE, tok |-> StrTok(key.s)]
      [] key.t = "bool" -> [ok |-> TRUE, tok |-> StrTok(key.s)]
      [] key.t = "NoneType" -> [ok |-> TRUE, tok |-> StrTok("null")]
      [] OTHER -> [ok |-> FALSE, tok |-> StrTok("")]

\* The scalar encodings with every scalar but None and bool written quoted.
ScalarTok_quoted(v) ==
    CASE v.t = "NoneType" -> Lit("null")
      [] v.t = "bool" -> Lit(v.s)
      [] OTHER -> StrTok(v.s)

\* The scalar encodings.
ScalarTok(v) ==
    CASE v.t = "NoneType" -> Lit("null")
      [] v.t = "bool" -> Lit(v.s)
      [] v.t = "int" -> Num(v.s)
      [] OTHER -> StrTok(v.s)

\* JSONEncoder.iterencode: [ok, toks], toks being the chunks yielded, up to
\* the TypeError when ok is FALSE.
RECURSIVE Encode(_), EncodeItems(_, _, _)
Encode(v) ==
    CASE v.t \in {"NoneType", "bool", "int", "str"} ->
               [ok |-> TRUE, toks |-> <<ScalarTok(v)>>]
      [] v.t \in {"list", "tuple"} ->
               IF v.items = <<>> THEN [ok |-> TRUE, toks |-> <<Punct("["), Punct("]")>>]
               ELSE LET r == EncodeItems(v.items, FALSE, TRUE)
                    IN  [ok |-> r.ok,
                         toks |-> <<Punct("[")>> \o r.toks
                                  \o (IF r.ok THEN <<Punct("]")>> ELSE <<>>)]
      [] v.t = "dict" ->
               IF v.items = <<>> THEN [ok |-> TRUE, toks |-> <<Punct("{"), Punct("}")>>]
               ELSE LET r == EncodeItems(v.items, TRUE, TRUE)
                    IN  [ok |-> r.ok,
                         toks |-> <<Punct("{")>> \o r.toks
                                  \o (IF r.ok THEN <<Punct("}")>> ELSE <<>>)]
      [] OTHER -> [ok |-> FALSE, toks |-> <<>>]

\* The elements of a list (or the key, value pairs of a dict), each after
\* the first preceded by the item separator.
EncodeItems(xs, isDict, first) ==
    IF xs = <<>> THEN [ok |-> TRUE, toks |-> <<>>]
    ELSE LET sep == IF first THEN <<>> ELSE <<Punct(",")>>
         IN  IF isDict
             THEN LET kt == KeyTok(xs[1])
                      ev == Encode(xs[2])
                      rest == EncodeItems(SubSeq(xs, 3, Len(xs)), TRUE, FALSE)
                  IN  IF ~kt.ok THEN [ok |-> FALSE, toks |-> sep]
                      ELSE IF ~ev.ok
                      THEN [ok |-> FALSE,
                            toks |-> sep \o <<kt.tok, Punct(":")>> \o ev.toks]
                      ELSE [ok |-> rest.ok,
                            toks |-> sep \o <<kt.tok, Punct(":")>> \o ev.toks
                                     \o rest.toks]
             ELSE LET ev == Encode(xs[1])
                      rest == EncodeItems(Tail(xs), FALSE, FALSE)
                  IN  IF ~ev.ok THEN [ok |-> FALSE, toks |-> sep \o ev.toks]
                      ELSE [ok |-> rest.ok, toks |-> sep \o ev.toks \o rest.toks]

\* dict[key] = value on the items of a dict: a key already present keeps its
\* place and takes the new value.
RECURSIVE DictSet(_, _, _)
DictSet(kvs, key, val) ==
    IF kvs = <<>> THEN <<key, val>>
    ELSE IF kvs[1] = key THEN <<key, val>> \o SubSeq(kvs, 3, Len(kvs))
    ELSE <<kvs[1], kvs[2]>> \o DictSet(SubSeq(kvs, 3, Len(kvs)), key, val)

ParseFail == [ok |-> FALSE, val |-> PyNone, rest |-> <<>>]

\* json.decoder's scanner: one value off the front of the tokens.
\* [ok, val, rest].
RECURSIVE ParseValue(_), ParseArray(_, _), ParseObject(_, _)
ParseValue(toks) ==
    IF toks = <<>> THEN ParseFail
    ELSE LET tk == Head(toks)
             rest == Tail(toks)
         IN  CASE tk.k = "lit" ->
                    [ok |-> TRUE,
                     val |-> IF tk.v = "null" THEN PyNone ELSE PyBool(tk.v = "true"),
                     rest |-> rest]
               [] tk.k = "num" -> [ok |-> TRUE, val |-> PyInt(tk.v), rest |-> rest]
               [] tk.k = "str" -> [ok |-> TRUE, val |-> PyStr(tk.v), rest |-> rest]
               [] tk = Punct("[") ->
                    IF rest # <<>> /\ Head(rest) = Punct("]")
                    THEN [ok |-> TRUE, val |-> PyList(<<>>), rest |-> Tail(rest)]
                    ELSE ParseArray(rest, <<>>)
               [] tk = Punct("{") ->
                    IF rest # <<>> /\ Head(rest) = Punct("}")
                    THEN [ok |-> TRUE, val |-> PyDict(<<>>), rest |-> Tail(rest)]
                    ELSE ParseObject(rest, <<>>)
               [] OTHER -> ParseFail

\* After "[" or ",": a value, then "," or "]".
ParseArray(toks, acc) ==
    LET e == ParseValue(toks)
    IN  IF ~e.ok \/ e.rest = <<>> THEN ParseFail
        ELSE IF Head(e.rest) = Punct("]")
        THEN [ok |-> TRUE, val |-> PyList(Append(acc, e.val)), rest |-> Tail(e.rest)]
        ELSE IF Head(e.rest) = Punct(",")
        THEN ParseArray(Tail(e.rest), Append(acc, e.val))
        ELSE ParseFail

\* After "{" or ",": a string, ":", a value, then "," or "}".
ParseObject(toks, acc) ==
    IF Len(toks) < 2 \/ toks[1].k # "str" \/ toks[2] # Punct(":") THEN ParseFail
    ELSE LET e == ParseValue(SubSeq(toks, 3, Len(toks)))
             acc2 == DictSet(acc, PyStr(toks[1].v), e.val)
         IN  IF ~e.ok \/ e.rest = <<>> THEN ParseFail
             ELSE IF Head(e.rest) = Punct("}")
             THEN [ok |-> TRUE, val |-> PyDict(acc2), rest |-> Tail(e.rest)]
             ELSE IF Head(e.rest) = Punct(",")
             THEN ParseObject(Tail(e.rest), acc2)
             ELSE ParseFail

\* json.loads: one value and nothing after it.  [ok, val].
Decode(toks) ==
    LET r == ParseValue(toks)
    IN  [ok |-> r.ok /\ r.rest = <<>>, val |-> r.val]

(***************************************************************************)
(* open(), save_json and load_json.                                        *)
(***************************************************************************)
\* open(pathname, "w"): the file is created, or truncated when it is there.
\* [err, fs, node].
open_w(f, p) ==
    LET cs == Components(p) IN
    IF p = <<>> THEN [err |-> "ENOENT", fs |-> f, node |-> Root]
    ELSE IF cs = <<>> THEN [err |-> "EISDIR", fs |-> f, node |-> Root]
    ELSE LET par == WalkFrom(f, StartOf(p), SubSeq(cs, 1, Len(cs) - 1))
             c == cs[Len(cs)]
             target == Append(par.node, c)
         IN  IF par.err # "ok" THEN [err |-> par.err, fs |-> f, node |-> Root]
             ELSE IF ~IsDirNode(f, par.node)
             THEN [err |-> "ENOTDIR", fs |-> f, node |-> Root]
             ELSE IF c = DOT \/ c = DOTDOT \/ IsDirNode(f, target)
             THEN [err |-> "EISDIR", fs |-> f, node |-> Root]
             ELSE IF p[Len(p)] = SEP
             THEN [err |-> IF IsFileNode(f, target) THEN "ENOTDIR" ELSE "EISDIR",
                   fs |-> f, node |-> Root]
             ELSE IF IsFileNode(f, target)
             THEN [err |-> "ok", fs |-> [f EXCEPT !.files[target] = <<>>],
                   node |-> target]
             ELSE IF par.node \in f.ro
             THEN [err |-> "EACCES", fs |-> f, node |-> Root]
             ELSE [err |-> "ok",
                   fs |-> [f EXCEPT !.files = [x \in DOMAIN @ \cup {target} |->
                                                 IF x = target THEN <<>> ELSE @[x]]],
                   node |-> target]

\* save_json opening the file in mode "a": what was there stays in front.
save_json_append(f, data, p) ==
    LET o == open_w(f, p)
        e == Encode(data)
        old == LET r == Resolve(f, p)
               IN  IF r.err = "ok" /\ IsFileNode(f, r.node) THEN f.files[r.node]
                   ELSE <<>>
    IN  IF o.err # "ok" THEN [fs |-> f, exc |-> ExcOf(o.err)]
        ELSE [fs |-> [o.fs EXCEPT !.files[o.node] = old \o e.toks],
              exc |-> IF e.ok THEN "none" ELSE "TypeError"]

\* save_json(data, pathname): [fs, exc].  The file is opened (and so
\* emptied) before json.dump runs; the chunks json.dump wrote before a
\* TypeError are in the file when the with block closes it.
save_json(f, data, p) ==
    LET o == open_w(f, p)
        e == Encode(data)
    IN  IF o.err # "ok" THEN [fs |-> f, exc |-> ExcOf(o.err)]
        ELSE [fs |-> [o.fs EXCEPT !.files[o.node] = e.toks],
              exc |-> IF e.ok THEN "none" ELSE "TypeError"]

\* load_json(pathname): [exc, val].
load_json(f, p) ==
    LET r == Resolve(f, p)
    IN  IF r.err # "ok" THEN [exc |-> ExcOf(r.err), val |-> PyNone]
        ELSE IF IsDirNode(f, r.node) THEN [exc |-> "IsADirectoryError", val |-> PyNone]
        ELSE LET d == Decode(f.files[r.node])
             IN  IF d.ok THEN [exc |-> "none", val |-> d.val]
                 ELSE [exc |-> "JSONDecodeError", val |-> PyNone]

(***************************************************************************)
(* The inputs of the calls.                                                *)
(***************************************************************************)
P(c) == Str1(c)

\* PathBuilder(*names)
ArgTuples ==
    { <<>>,
      <<P("a")>>,
      <<P("a"), P("b")>>,
      <<P("f"), P("a")>>,
      <<P("r"), P("a")>>,
      <<P("a"), DOTDOT, P("f")>> }

\* builder / pathname
Segments == { P("b"), P("f"), DOTDOT, <<SEP, "a">>, <<"b", SEP, "a">> }

\* builder + basename
Basenames == { P("f"), P("b") }

\* save_json(data, pathname), load_json(pathname)
JsonPaths == { <<"a", SEP, "f">> }

DataSet ==
    { PyDict(<<PyStr("a"), PyList(<<PyInt("1"), PyNone>>)>>),
      PyList(<<PyBool(TRUE), PyStr("1")>>),
      PyTuple(<<PyInt("1"), PyStr("a")>>),
      PyDict(<<PyInt("1"), PyStr("a")>>),
      PyList(<<PyInt("1"), PySet(<<>>)>>) }

(***************************************************************************)
(* The state machine of the calls, one call per step.  last records the    *)
(* call: its name, the receiver's index (0: none), the number of           *)
(* arguments, the path string it computed or was given, the exception that *)
(* reached the caller, the file system before the call, the kind of object *)
(* returned and the JSON value passed or returned.                         *)
(***************************************************************************)
Call(op, recv, nargs, path, exc, pre, ret, val) ==
    [op |-> op, recv |-> recv, nargs |-> nargs, path |-> path, exc |-> exc,
     pre |-> pre, ret |-> ret, val |-> val]

NoCall(f) == Call("none", 0, 0, <<>>, "none", f, "none", PyNone)

\* The file systems a run may start from: the working directory, with or
\* without a regular file f in it and a directory r the process may not
\* write to.
InitFiles == { <<>>, [x \in {Append(Cwd, P("f"))} |-> <<Num("1")>>] }
InitRo == { {}, {Append(Cwd, P("r"))} }

InitFS ==
    { [dirs |-> {Root, Cwd} \cup ro, files |-> fl, ro |-> ro] :
        fl \in InitFiles, ro \in InitRo }

NoThreads == <<>>
NoListify == [arg |-> 0, ret |-> 0, n |-> 0]

Init ==
    /\ fs \in InitFS
    /\ builders = <<>>
    /\ last = NoCall(fs)
    /\ threads = NoThreads
    /\ heap = <<>>
    /\ lret = NoListify

\* b = PathBuilder(*names)
Construct(names) ==
    /\ Len(builders) < MaxBuilders
    /\ \E r \in {PathBuilder_init(fs, names)} :
           /\ fs' = r.fs
           /\ builders' = IF r.exc = "none" THEN Append(builders, [path |-> r.path])
                          ELSE builders
           /\ last' = Call("init", 0, Len(names), r.path, r.exc, fs,
                           IF r.exc = "none" THEN "new" ELSE "none", PyNone)
    /\ UNCHANGED <<threads, heap, lret>>

\* c = builders[i] / pathname
Truediv(i, pathname) ==
    /\ Len(builders) < MaxBuilders
    /\ \E r \in {PathBuilder_truediv(fs, builders[i], pathname)} :
       LET kept == [builders EXCEPT ![i] = r.self]
       IN  /\ fs' = r.fs
           /\ builders' = IF r.exc = "none" /\ r.ret = "new"
                          THEN Append(kept, [path |-> r.path])
                          ELSE kept
           /\ last' = Call("truediv", i, 1, r.path, r.exc, fs,
                           IF r.exc = "none" THEN r.ret ELSE "none", PyNone)
    /\ UNCHANGED <<threads, heap, lret>>

\* s = builders[i] + basename
Add(i, basename) ==
    /\ \E r \in {PathBuilder_add(fs, builders[i], basename)} :
       LET kept == [builders EXCEPT ![i] = r.self]
       IN  /\ fs' = r.fs
           /\ builders' = IF r.exc = "none" /\ r.ret = "new"
                          THEN Append(kept, [path |-> r.path])
                          ELSE kept
           /\ last' = Call("add", i, 1, r.path, r.exc, fs,
                           IF r.exc = "none" THEN r.ret ELSE "none", PyNone)
    /\ UNCHANGED <<threads, heap, lret>>

\* save_json(data, pathname)
SaveJson(data, p) ==
    /\ \E r \in {save_json(fs, data, p)} :
           /\ fs' = r.fs
           /\ last' = Call("save_json", 0, 2, p, r.exc, fs, "none", data)
    /\ UNCHANGED <<builders, threads, heap, lret>>

\* v = load_json(pathname)
LoadJson(p) ==
    /\ \E r \in {load_json(fs, p)} :
           last' = Call("load_json", 0, 1, p, r.exc, fs,
                        IF r.exc = "none" THEN "value" ELSE "none", r.val)
    /\ UNCHANGED <<fs, builders, threads, heap, lret>>

Next ==
    \/ \E names \in ArgTuples : Construct(names)
    \/ \E i \in DOMAIN builders : \E s \in Segments : Truediv(i, s)
    \/ \E i \in DOMAIN builders : \E s \in Basenames : Add(i, s)
    \/ \E d \in DataSet : \E p \in JsonPaths : SaveJson(d, p)
    \/ \E p \in JsonPaths : LoadJson(p)

Spec == Init /\ [][Next]_vars

(***************************************************************************)
(* Threads constructing PathBuilder at the same time: each has computed    *)
(* its path and is inside os.makedirs, one system call per step.           *)
(***************************************************************************)
ThreadArgs ==
    { <<P("a")>>,
      <<P("a"), P("b")>>,
      <<P("a"), <<"b", SEP, "a">>>> }

EmptyFS == [dirs |-> {Root, Cwd}, files |-> <<>>, ro |-> {}]

NewThread(names) ==
    LET path == JoinAll(IF names = <<>> THEN <<DOT>> ELSE names)
    IN  [path |-> path, run |-> StartRun(path)]

InitThreads ==
    /\ fs = EmptyFS
    /\ builders = <<>>
    /\ last = NoCall(fs)
    /\ threads \in [1..MaxThreads -> {NewThread(names) : names \in ThreadArgs}]
    /\ heap = <<>>
    /\ lret = NoListify

\* Thread t makes the next system call of its os.makedirs.
ThreadStep(t) ==
    /\ ~threads[t].run.done
    /\ \E s \in {MakedirsStep(fs, threads[t].run, EXIST_OK)} :
           /\ fs' = s.fs
           /\ threads' = [threads EXCEPT ![t].run = s.run]
    /\ UNCHANGED <<builders, last, heap, lret>>

NextThreads == \E t \in DOMAIN threads : ThreadStep(t)

SpecThreads == InitThreads /\ [][NextThreads]_vars

(***************************************************************************)
(* listify.  heap holds the objects by identity (their index); listify     *)
(* returns the index of an object, allocated when it is a new list.        *)
(***************************************************************************)
\* isinstance(obj, Iterable)
IsIterable(v) == v.t \in {"list", "tuple", "range", "dict", "set", "str"}

\* range(0, n)'s elements.
RangeTo(n) == [i \in 1..n |-> PyInt(ToString(i - 1))]

\* list(obj): the elements iteration yields (a dict yields its keys).
Iterate(v) ==
    IF v.t = "dict" THEN [i \in 1..(Len(v.items) \div 2) |-> v.items[2 * i - 1]]
    ELSE v.items

\* listify returning list(obj) for every iterable that is not a string, a
\* list included.
listify_copy(h, i) ==
    LET obj == h[i]
    IN  IF obj.t # "str" /\ IsIterable(obj)
        THEN [heap |-> Append(h, PyList(Iterate(obj))), ret |-> Len(h) + 1]
        ELSE [heap |-> Append(h, PyList(<<obj>>)), ret |-> Len(h) + 1]

\* listify(obj) on the object at index i: [heap, ret].
listify(h, i) ==
    LET obj == h[i]
    IN  IF obj.t = "list" THEN [heap |-> h, ret |-> i]
        ELSE IF obj.t # "str" /\ IsIterable(obj)
        THEN [heap |-> Append(h, PyList(Iterate(obj))), ret |-> Len(h) + 1]
        ELSE [heap |-> Append(h, PyList(<<obj>>)), ret |-> Len(h) + 1]

Objects ==
    { PyList(<<PyInt("1"), PyStr("a")>>),
      PyTuple(<<PyInt("1"), PyStr("a")>>),
      PyRange(RangeTo(3)),
      PyDict(<<PyStr("k"), PyInt("1")>>),
      PyStr("abc"),
      PyInt("7") }

InitListify ==
    /\ fs = EmptyFS
    /\ builders = <<>>
    /\ last = NoCall(fs)
    /\ threads = NoThreads
    /\ heap = <<>>
    /\ lret = NoListify

\* The caller creates an object.
NewObject(v) ==
    /\ Len(heap) < MaxHeap
    /\ heap' = Append(heap, v)
    /\ lret' = NoListify
    /\ UNCHANGED <<fs, builders, last, threads>>

\* y = listify(heap[i])
Listify(i) ==
    /\ LET r == listify(heap, i)
       IN  /\ Len(r.heap) <= MaxHeap
           /\ heap' = r.heap
           /\ lret' = [arg |-> i, ret |-> r.ret, n |-> Len(heap)]
    /\ UNCHANGED <<fs, builders, last, threads>>

NextListify ==
    \/ \E v \in Objects : NewObject(v)
    \/ \E i \in DOMAIN heap : Listify(i)

SpecListify == InitListify /\ [][NextListify]_vars

(***************************************************************************)
(* The properties.                                                         *)
(***************************************************************************)
IsPrefix(a, b) == Len(a) <= Len(b) /\ SubSeq(b, 1, Len(a)) = a

\* Every leading part of canonical path c, c included, is a directory.
AncestorsAreDirs(f, c) == \A k \in 0..Len(c) : SubSeq(c, 1, k) \in f.dirs

BuilderCalls == {"init", "truediv"}

\* Creating the directories of path components cs from node cur runs into a
\* regular file, or into a missing component of a directory the process may
\* not write to; made holds the directories created on the way.
RECURSIVE BlockedFrom(_, _, _, _)
BlockedFrom(f, cur, cs, made) ==
    IF cs = <<>> THEN FALSE
    ELSE LET c == Head(cs)
             nxt == IF c = DOT THEN cur
                    ELSE IF c = DOTDOT THEN Parent(cur)
                    ELSE Append(cur, c)
         IN  IF IsFileNode(f, nxt) THEN TRUE
             ELSE IF IsDirNode(f, nxt) \/ nxt \in made
             THEN BlockedFrom(f, nxt, Tail(cs), made)
             ELSE IF cur \in f.ro THEN TRUE
             ELSE BlockedFrom(f, nxt, Tail(cs), made \cup {nxt})

Blocked(f, p) == p # <<>> /\ BlockedFrom(f, StartOf(p), Components(p), {})

C2_AddLeavesFileSystem ==
    [][last'.op = "add" =>
          /\ fs' = fs
          /\ builders' = builders
          /\ last'.exc = "none"
          /\ last'.ret = "str"]_vars

\* C2's case: + returned a path that names nothing in the file system.
C2_Witness ==
    /\ last.op = "add" /\ last.ret = "str"
    /\ ~exists(fs, last.path)
    /\ fs = last.pre

\* C3: no call changes the path of a builder that exists, and a / that
\* returns returns a new instance, not its receiver.
C3_BuildersImmutable ==
    [][/\ \A i \in DOMAIN builders :
             i \in DOMAIN builders' /\ builders'[i] = builders[i]
       /\ (last'.op = "truediv" /\ last'.exc = "none") =>
             /\ last'.ret = "new"
             /\ Len(builders') = Len(builders) + 1
             /\ builders'[Len(builders')].path = last'.path]_vars

\* C3's case: a / returned a builder whose path differs from its receiver's.
C3_Witness ==
    /\ last.op = "truediv" /\ last.exc = "none"
    /\ Len(builders) = 2
    /\ builders[2].path # builders[last.recv].path

C5_WitnessDenied ==
    /\ last.op = "init"
    /\ Blocked(last.pre, last.path)
    /\ last.exc = "PermissionError"

\* C6: whatever the interleaving of the threads' system calls, a thread
\* whose os.makedirs has ended ended without an exception, and its
\* directory exists.
C6_ThreadsSucceed ==
    \A t \in DOMAIN threads :
        threads[t].run.done =>
            /\ threads[t].run.exc = "none"
            /\ isdir(fs, threads[t].path)

\* C6's case: one thread has finished while another, whose mkdir found the
\* directory made in the meantime, is about to check path.isdir.
C6_Witness ==
    \E t, u \in DOMAIN threads :
        /\ t # u
        /\ threads[t].run.done
        /\ ~threads[u].run.done
        /\ LET top == threads[u].run.stack[Len(threads[u].run.stack)]
           IN  top.pc = "isdir" /\ top.err = "EEXIST"

\* C7: listify returns its argument when it is a list, a new list of its
\* elements in order when it is another iterable that is no string, and a
\* new one-element list holding it otherwise.
C7_Listify ==
    lret.arg # 0 =>
        LET x == heap[lret.arg]
            y == heap[lret.ret]
            isnew == lret.ret = lret.n + 1 /\ Len(heap) = lret.n + 1
        IN  /\ x.t = "list" => lret.ret = lret.arg /\ Len(heap) = lret.n
            /\ x.t \in {"tuple", "range", "set"} =>
                  isnew /\ y.t = "list" /\ y.items = x.items
            /\ x.t = "dict" =>
                  /\ isnew /\ y.t = "list"
                  /\ Len(y.items) * 2 = Len(x.items)
                  /\ \A k \in 1..Len(y.items) : y.items[k] = x.items[2 * k - 1]
            /\ x.t \in {"str", "int", "NoneType", "bool"} =>
                  isnew /\ y = PyList(<<x>>)
            /\ x.t = "range" /\ Len(x.items) = 3 =>
                  y = PyList(<<PyInt("0"), PyInt("1"), PyInt("2")>>)
            /\ x = PyStr("abc") => y = PyList(<<PyStr("abc")>>)

\* C7's case: listify of a list returned it, with a string and a range
\* listified before.
C7_Witness ==
    /\ lret.arg # 0
    /\ heap[lret.arg].t = "list"
    /\ lret.ret = lret.arg
    /\ \E i \in DOMAIN heap : heap[i] = PyList(<<PyStr("abc")>>)

\* Python's == on the values of DataSet and what json.load returns for
\* them: the types and the elements agree.
PyEq(a, b) == a = b

\* Built of None, bool, int, str, lists and dicts whose keys are strings.
RECURSIVE JsonNative(_)
JsonNative(v) ==
    \/ v.t \in {"NoneType", "bool", "int", "str"}
    \/ v.t = "list" /\ \A k \in DOMAIN v.items : JsonNative(v.items[k])
    \/ /\ v.t = "dict"
       /\ \A k \in DOMAIN v.items :
             IF k % 2 = 1 THEN v.items[k].t = "str" ELSE JsonNative(v.items[k])

\* C8 as stated: after save_json(data, p) returned, load_json(p) returns a
\* value equal to data.
C8_RoundTripAny ==
    (last.op = "save_json" /\ last.exc = "none") =>
        LET r == load_json(fs, last.path)
        IN  r.exc = "none" /\ PyEq(r.val, last.val)

\* C8 amended: after save_json(data, p) returned for data built of None,
\* bool, int, str, lists and string-keyed dicts, load_json(p) returns a
\* value equal to data.
C8_RoundTripNative ==
    (last.op = "save_json" /\ last.exc = "none" /\ JsonNative(last.val)) =>
        LET r == load_json(fs, last.path)
        IN  r.exc = "none" /\ PyEq(r.val, last.val)

\* C8's case: a nested, string-keyed dict was saved.
C8_Witness ==
    /\ last.op = "save_json" /\ last.exc = "none"
    /\ JsonNative(last.val)
    /\ last.val.t = "dict"
    /\ \E k \in DOMAIN last.val.items : last.val.items[k].t = "list"

FailedCalls == {"init", "truediv", "save_json"}

\* C9 as stated: a construction, / or save_json that raised left the file
\* system as it was before the call.
C9_FailureLeavesNothing ==
    (last.op \in FailedCalls /\ last.exc # "none") => fs = last.pre

\* C9 amended: a construction or / that raised kept every directory and
\* file there was and added at most directories; a save_json that raised
\* opening the file left the file system as it was, and one that raised
\* TypeError left the file holding the chunks written before the error and
\* everything else as it was.
C9_FailureKeepsEntries ==
    /\ (last.op \in BuilderCalls /\ last.exc # "none") =>
          /\ last.pre.dirs \subseteq fs.dirs
          /\ fs.files = last.pre.files
          /\ fs.ro = last.pre.ro
          /\ \A d \in fs.dirs \ last.pre.dirs : AncestorsAreDirs(fs, d)
    /\ (last.op = "save_json" /\ last.exc # "none") =>
          /\ fs.dirs = last.pre.dirs
          /\ fs.ro = last.pre.ro
          /\ IF last.exc = "TypeError"
             THEN LET node == Resolve(fs, last.path).node
                  IN  /\ IsFileNode(fs, node)
                      /\ fs.files[node] = Encode(last.val).toks
                      /\ \A c \in DOMAIN last.pre.files :
                            c # node => /\ c \in DOMAIN fs.files
                                        /\ fs.files[c] = last.pre.files[c]
                      /\ DOMAIN fs.files \subseteq DOMAIN last.pre.files \cup {node}
             ELSE fs = last.pre

\* C9's case: a construction that raised left a directory it had created.
C9_Witness ==
    /\ last.op = "init" /\ last.exc # "none"
    /\ fs.dirs # last.pre.dirs

\* C9's case again: a save_json that raised TypeError over a file that held
\* a document.
C9_WitnessSave ==
    /\ last.op = "save_json" /\ last.exc = "TypeError"
    /\ LET node == Resolve(fs, last.path).node
       IN  /\ IsFileNode(last.pre, node)
           /\ Decode(last.pre.files[node]).ok
           /\ fs.files[node] # last.pre.files[node]

\* C10: the builder b / s returns has b's path as a prefix of its path, and
\* every directory the call created lies inside the directory b denotes.
C10_DescendStaysInside ==
    (last.op = "truediv" /\ last.exc = "none") =>
        LET b == builders[last.recv]
        IN  /\ IsPrefix(b.path, last.path)
            /\ \A d \in fs.dirs \ last.pre.dirs :
                  IsPrefix(Resolve(fs, b.path).node, d)

====
